---------------------------- MODULE Spec2Model ----------------------------
(***************************************************************************)
(* A model of pystockfish.py: the UCI protocol client (class Engine) that  *)
(* drives a Stockfish child process over its standard streams, and the     *)
(* match orchestrator (class Match) built on two such clients.             *)
(*                                                                         *)
(* Text is modelled character by character: a Python str is a sequence of  *)
(* one-character strings, so that strip, split, find and indexing do what  *)
(* the Python built-ins do.  Python indices are 0-based, TLA+ sequences    *)
(* are 1-based: the Python expression s[i] is s[i + 1] here.               *)
(***************************************************************************)
EXTENDS Integers, Sequences, FiniteSets, TLC

(***************************************************************************)
(* Python built-ins used by the source.                                    *)
(***************************************************************************)

\* The characters str.strip() removes.
Whitespace == {" ", "\t", "\r", "\n"}

RECURSIVE LStrip(_)
LStrip(s) ==
    IF s # <<>> /\ Head(s) \in Whitespace THEN LStrip(Tail(s)) ELSE s

RECURSIVE RStrip(_)
RStrip(s) ==
    IF s # <<>> /\ s[Len(s)] \in Whitespace
    THEN RStrip(SubSeq(s, 1, Len(s) - 1))
    ELSE s

\* str.strip()
Strip(s) == RStrip(LStrip(s))

\* s.startswith(sub) at 0-based offset i
MatchesAt(s, sub, i) ==
    /\ i + Len(sub) <= Len(s)
    /\ \A k \in 1..Len(sub) : s[i + k] = sub[k]

\* str.find(sub): the lowest 0-based index where sub occurs, -1 when absent.
Find(s, sub) ==
    LET hits == {i \in 0..Len(s) : MatchesAt(s, sub, i)}
    IN  IF hits = {} THEN -1
        ELSE CHOOSE i \in hits : \A j \in hits : i <= j

\* str.split(' '): cut at every single blank; adjacent blanks give empty
\* fields, and the empty string gives one empty field.
RECURSIVE SplitFrom(_, _, _)
SplitFrom(s, i, cur) ==
    IF i > Len(s) THEN <<cur>>
    ELSE IF s[i] = " " THEN <<cur>> \o SplitFrom(s, i + 1, <<>>)
    ELSE SplitFrom(s, i + 1, Append(cur, s[i]))

Split(s) == SplitFrom(s, 1, <<>>)

\* The decimal digits int() accepts, with their values.
DigitChars == <<"0", "1", "2", "3", "4", "5", "6", "7", "8", "9">>

IsDigit(c) == \E d \in 1..10 : DigitChars[d] = c

DigitValue(c) == (CHOOSE d \in 1..10 : DigitChars[d] = c) - 1

\* str(n) for an integer n
RECURSIVE NatStr(_)
NatStr(n) ==
    IF n < 10 THEN <<DigitChars[n + 1]>>
    ELSE Append(NatStr(n \div 10), DigitChars[(n % 10) + 1])

IntStr(n) == IF n < 0 THEN <<"-">> \o NatStr(0 - n) ELSE NatStr(n)


(***************************************************************************)
(* The chess-rules collaborator (python-chess: chess.Board, chess.Move).   *)
(* It is a library outside the repository; the client uses four of its     *)
(* operations: Board(), fen(), san(move) and push_san(san), and            *)
(* Move.from_uci(text).  The board is reduced to three files and four      *)
(* ranks with two knights a side, which keeps what the client depends on:  *)
(* a move is legal only for a piece of the side to move standing on the    *)
(* origin square, SAN needs a disambiguator when two knights reach one     *)
(* square, the null move "0000" is accepted anywhere, and the FEN carries  *)
(* the placement, the side to move and the two move counters.              *)
(***************************************************************************)
FileChars == <<"a", "b", "c">>

RankChars == <<"1", "2", "3", "4">>

\* A square is <<file, rank>>.
Squares == (1..Len(FileChars)) \X (1..Len(RankChars))

\* chess.Move.null()
NullMove == [from |-> <<0, 0>>, to |-> <<0, 0>>]

\* chess.Board(): the starting arrangement, white to move.
StartBoard ==
    [at |-> [sq \in Squares |->
                IF sq \in {<<1, 1>>, <<3, 1>>} THEN "N"
                ELSE IF sq \in {<<1, 4>>, <<3, 4>>} THEN "n"
                ELSE "."],
     turn |-> "w",
     halfmove |-> 0,
     fullmove |-> 1]

OwnPiece(b) == IF b.turn = "w" THEN "N" ELSE "n"

Abs(x) == IF x < 0 THEN 0 - x ELSE x

KnightStep(from, to) ==
    <<Abs(from[1] - to[1]), Abs(from[2] - to[2])>> \in {<<1, 2>>, <<2, 1>>}

\* Board.is_legal(move) for a move that is not the null move.
IsLegal(b, m) ==
    /\ m.from \in Squares
    /\ m.to \in Squares
    /\ b.at[m.from] = OwnPiece(b)
    /\ b.at[m.to] # OwnPiece(b)
    /\ KnightStep(m.from, m.to)

LegalMoves(b) ==
    {m \in [from : Squares, to : Squares] : IsLegal(b, m)}

SquareName(sq) == <<FileChars[sq[1]], RankChars[sq[2]]>>

IsSquareName(t) ==
    /\ Len(t) = 2
    /\ \E f \in 1..Len(FileChars) : FileChars[f] = t[1]
    /\ \E r \in 1..Len(RankChars) : RankChars[r] = t[2]

ParseSquare(t) ==
    <<CHOOSE f \in 1..Len(FileChars) : FileChars[f] = t[1],
      CHOOSE r \in 1..Len(RankChars) : RankChars[r] = t[2]>>

\* chess.Move.from_uci(text): [ok, move]; ok is FALSE where it raises
\* ValueError (not four characters, no square names, or a move from
\* a square to itself other than the null move "0000").
FromUci(t) ==
    IF t = <<"0", "0", "0", "0">> THEN [ok |-> TRUE, move |-> NullMove]
    ELSE IF /\ Len(t) = 4
            /\ IsSquareName(SubSeq(t, 1, 2))
            /\ IsSquareName(SubSeq(t, 3, 4))
            /\ SubSeq(t, 1, 2) # SubSeq(t, 3, 4)
    THEN [ok |-> TRUE,
          move |-> [from |-> ParseSquare(SubSeq(t, 1, 2)),
                    to |-> ParseSquare(SubSeq(t, 3, 4))]]
    ELSE [ok |-> FALSE, move |-> NullMove]

\* The disambiguator of board.san(): the origin file when no other knight
\* that reaches the target stands on that file, else the origin rank, else
\* both.
Disambiguator(b, m) ==
    LET others == {o \in LegalMoves(b) : o.to = m.to /\ o.from # m.from}
    IN  IF others = {} THEN <<>>
        ELSE IF \A o \in others : o.from[1] # m.from[1]
        THEN <<FileChars[m.from[1]]>>
        ELSE IF \A o \in others : o.from[2] # m.from[2]
        THEN <<RankChars[m.from[2]]>>
        ELSE SquareName(m.from)

\* board.san(move) for a legal or null move.
San(b, m) ==
    IF m = NullMove THEN <<"-", "-">>
    ELSE <<"N">> \o Disambiguator(b, m)
         \o (IF b.at[m.to] = "." THEN <<>> ELSE <<"x">>)
         \o SquareName(m.to)

\* board.parse_san(san): the moves the text can mean on this board.
SanMatches(b, san) ==
    IF san = <<"-", "-">> THEN {NullMove}
    ELSE {m \in LegalMoves(b) : San(b, m) = san}

\* board.push(move): the counters advance, a capture zeroes the halfmove
\* clock, the side to move changes.
Push(b, m) ==
    LET full == IF b.turn = "b" THEN b.fullmove + 1 ELSE b.fullmove
        next == IF b.turn = "w" THEN "b" ELSE "w"
    IN  IF m = NullMove
        THEN [b EXCEPT !.turn = next, !.halfmove = b.halfmove + 1,
                       !.fullmove = full]
        ELSE [at |-> [b.at EXCEPT ![m.from] = ".", ![m.to] = OwnPiece(b)],
              turn |-> next,
              halfmove |-> IF b.at[m.to] = "." THEN b.halfmove + 1 ELSE 0,
              fullmove |-> full]

\* The half-moves played on a board that started as chess.Board().
Ply(b) == 2 * (b.fullmove - 1) + (IF b.turn = "b" THEN 1 ELSE 0)

\* One rank of the placement field of a FEN, from square k on, after a run
\* of run empty squares: runs of empty squares are written as their length.
RECURSIVE RankFrom(_, _, _)
RankFrom(row, k, run) ==
    LET gap == IF run > 0 THEN NatStr(run) ELSE <<>>
    IN  IF k > Len(row) THEN gap
        ELSE IF row[k] = "." THEN RankFrom(row, k + 1, run + 1)
        ELSE gap \o <<row[k]>> \o RankFrom(row, k + 1, 0)

\* The placement field of board.fen(): the ranks from the last one down,
\* separated by "/".
RECURSIVE PlacementFrom(_, _)
PlacementFrom(b, r) ==
    LET row == [f \in 1..Len(FileChars) |-> b.at[<<f, r>>]]
    IN  IF r = 1 THEN RankFrom(row, 1, 0)
        ELSE RankFrom(row, 1, 0) \o <<"/">> \o PlacementFrom(b, r - 1)

\* board.fen(): the placement, the side to move, the castling and
\* en-passant fields (always "-" here) and the two counters.
Fen(b) ==
    PlacementFrom(b, Len(RankChars))
    \o <<" ", b.turn, " ", "-", " ", "-", " ">>
    \o IntStr(b.halfmove) \o <<" ">> \o IntStr(b.fullmove)

\* int(text) for a text without sign: [ok, value]; ok is FALSE where it
\* raises ValueError.
RECURSIVE ParseNatFrom(_, _, _)
ParseNatFrom(t, k, acc) ==
    IF k > Len(t) THEN [ok |-> TRUE, value |-> acc]
    ELSE IF ~IsDigit(t[k]) THEN [ok |-> FALSE, value |-> 0]
    ELSE ParseNatFrom(t, k + 1, 10 * acc + DigitValue(t[k]))

ParseNat(t) ==
    IF t = <<>> THEN [ok |-> FALSE, value |-> 0] ELSE ParseNatFrom(t, 1, 0)

\* text.split(sep) for a separator of one character.
RECURSIVE SplitOnFrom(_, _, _, _)
SplitOnFrom(s, sep, k, cur) ==
    IF k > Len(s) THEN <<cur>>
    ELSE IF s[k] = sep THEN <<cur>> \o SplitOnFrom(s, sep, k + 1, <<>>)
    ELSE SplitOnFrom(s, sep, k + 1, Append(cur, s[k]))

SplitOn(s, sep) == SplitOnFrom(s, sep, 1, <<>>)

\* text.split() of a text whose only whitespace is blanks: the fields
\* between runs of blanks.
SplitBlanks(s) ==
    LET NotEmpty(f) == f # <<>>
    IN  SelectSeq(SplitOn(s, " "), NotEmpty)

\* One rank of a placement field read back: [ok, row]; ok is FALSE for a
\* character that is no piece and no digit, for two digits in a row and for
\* a rank that does not fill the files.
RECURSIVE ReadRankFrom(_, _, _, _)
ReadRankFrom(t, k, row, after_digit) ==
    IF k > Len(t) THEN [ok |-> Len(row) = Len(FileChars), row |-> row]
    ELSE IF t[k] \in {"N", "n"}
    THEN ReadRankFrom(t, k + 1, Append(row, t[k]), FALSE)
    ELSE IF IsDigit(t[k]) /\ DigitValue(t[k]) >= 1 /\ ~after_digit
    THEN ReadRankFrom(t, k + 1,
                      row \o [j \in 1..DigitValue(t[k]) |-> "."], TRUE)
    ELSE [ok |-> FALSE, row |-> row]

\* board.set_fen(fen): [ok, board]; ok is FALSE where it raises ValueError.
\* Fields left out take their defaults: white to move, "-", "-", 0 and 1.
SetFen(fen) ==
    LET parts == SplitBlanks(fen)
        Part(k, default) == IF Len(parts) >= k THEN parts[k] ELSE default
        ranks == SplitOn(Part(1, <<>>), "/")
        rows == [k \in 1..Len(ranks) |-> ReadRankFrom(ranks[k], 1, <<>>, FALSE)]
        half == ParseNat(Part(5, <<"0">>))
        full == ParseNat(Part(6, <<"1">>))
        ok == /\ Len(parts) \in 1..6
              /\ Part(2, <<"w">>) \in {<<"w">>, <<"b">>}
              /\ Part(3, <<"-">>) = <<"-">>
              /\ Part(4, <<"-">>) = <<"-">>
              /\ half.ok
              /\ full.ok
              /\ Len(ranks) = Len(RankChars)
              /\ \A k \in 1..Len(ranks) : rows[k].ok
    IN  IF ~ok THEN [ok |-> FALSE, board |-> StartBoard]
        ELSE [ok |-> TRUE,
              board |->
                 [at |-> [sq \in Squares |->
                            rows[Len(RankChars) + 1 - sq[2]].row[sq[1]]],
                  turn |-> Part(2, <<"w">>)[1],
                  halfmove |-> half.value,
                  fullmove |-> IF full.value < 1 THEN 1 ELSE full.value]]

(***************************************************************************)
(* Text of the UCI vocabulary.                                             *)
(***************************************************************************)
READYOK ==
    <<"r", "e", "a", "d", "y", "o", "k">>

INFO ==
    <<"i", "n", "f", "o">>

DEPTH ==
    <<"d", "e", "p", "t", "h">>

MULTIPV ==
    <<"m", "u", "l", "t", "i", "p", "v">>

PV ==
    <<"p", "v">>

NO_SUCH ==
    <<"N", "o", " ", "s", "u", "c", "h">>

MATE ==
    <<"m", "a", "t", "e">>

BESTMOVE ==
    <<"b", "e", "s", "t", "m", "o", "v", "e">>

\* The marker best_move stores when the bestmove line names no ponder move.
NONE_PONDER ==
    <<"(", "n", "o", "n", "e", ")">>

\* The line end the child process's terminal puts on every line.
EOL ==
    <<"\r", "\n">>

\* Option names.
N_PONDER ==
    <<"P", "o", "n", "d", "e", "r">>

N_WRITE_DEBUG_LOG ==
    <<"W", "r", "i", "t", "e", " ", "D", "e", "b", "u", "g", " ", "L", "o", "g">>

N_CONTEMPT_FACTOR ==
    <<"C", "o", "n", "t", "e", "m", "p", "t", " ", "F", "a", "c", "t", "o", "r">>

N_CONTEMPT ==
    <<"C", "o", "n", "t", "e", "m", "p", "t">>

N_MIN_SPLIT_DEPTH ==
    <<"M", "i", "n", " ", "S", "p", "l", "i", "t", " ", "D", "e", "p", "t", "h">>

N_THREADS ==
    <<"T", "h", "r", "e", "a", "d", "s">>

N_HASH ==
    <<"H", "a", "s", "h">>

N_MULTIPV ==
    <<"M", "u", "l", "t", "i", "P", "V">>

N_SKILL_LEVEL ==
    <<"S", "k", "i", "l", "l", " ", "L", "e", "v", "e", "l">>

N_MOVE_OVERHEAD ==
    <<"M", "o", "v", "e", " ", "O", "v", "e", "r", "h", "e", "a", "d">>

N_MINIMUM_THINKING_TIME ==
    <<"M", "i", "n", "i", "m", "u", "m", " ", "T", "h", "i", "n", "k", "i", "n", "g", " ", "T", "i", "m", "e">>

N_SLOW_MOVER ==
    <<"S", "l", "o", "w", " ", "M", "o", "v", "e", "r">>

N_UCI_CHESS960 ==
    <<"U", "C", "I", "_", "C", "h", "e", "s", "s", "9", "6", "0">>

\* A misspelled option name a caller may pass.
N_SKILL_LEVEEL ==
    <<"S", "k", "i", "l", "l", " ", "L", "e", "v", "e", "e", "l">>

\* Moves in long algebraic notation, and the null move.
M_A1B3 ==
    <<"a", "1", "b", "3">>

M_C1B3 ==
    <<"c", "1", "b", "3">>

M_A4B2 ==
    <<"a", "4", "b", "2">>

M_C4B2 ==
    <<"c", "4", "b", "2">>

M_C1A2 ==
    <<"c", "1", "a", "2">>

M_NULL ==
    <<"0", "0", "0", "0">>

(***************************************************************************)
(* Python values.  An option value is an int, a bool, a str or a tuple of   *)
(* one int; it is tagged by its type so that str(value) can be computed.   *)
(***************************************************************************)
PyInt(n) == [int |-> n]

PyBool(b) == [bool |-> b]

PyText(s) == [str |-> s]

\* The tuple (n,)
PyTuple(n) == [tuple |-> n]

\* str(value)
PyStr(v) ==
    IF DOMAIN v = {"int"} THEN IntStr(v.int)
    ELSE IF DOMAIN v = {"bool"}
    THEN (IF v.bool THEN <<"T", "r", "u", "e">>
          ELSE <<"F", "a", "l", "s", "e">>)
    ELSE IF DOMAIN v = {"tuple"}
    THEN <<"(">> \o IntStr(v.tuple) \o <<",", ")">>
    ELSE v.str

(***************************************************************************)
(* State.                                                                  *)
(*                                                                         *)
(* One protocol client (class Engine) with its child process:              *)
(*   pc        where the client is: "idle" between calls, "is_ready" in    *)
(*             the read loop of is_ready, "best_move" in that of           *)
(*             best_move, "returned" when a call has just ended            *)
(*   call      the call in progress, or the last one: its name, its        *)
(*             arguments and the tracked board it started from             *)
(*   stdin     the commands written to the child and not yet taken by it   *)
(*   stdout    the lines the child has written and the client has not read *)
(*   lastline  is_ready's local of that name                               *)
(*   last_line best_move's local of that name                              *)
(*   ret       what the last finished call returned or raised              *)
(*   board     self.board                                                  *)
(*   attrs     the attributes set_option has set with setattr              *)
(*   reads     the lines the running read loop has read so far             *)
(*   sent      the commands the call in progress has written               *)
(*                                                                         *)
(* One match (class Match) over two clients:                               *)
(*   white, black   the names of the engines playing white and black       *)
(*   moves          self.moves                                             *)
(*   winner         self.winner, "None" while none is recorded             *)
(*   boards         the tracked board of each engine, by name              *)
(*   step           the last call of move(): who was active, what the      *)
(*                  search returned, and how the call ended                *)
(*   runpc, runret  where run() is, and what it returned                   *)
(*   ended          the calls of move() made since one returned False,     *)
(*                  that one included                                      *)
(*                                                                         *)
(* The construction of a client (Engine.__init__):                         *)
(*   phase     how far __init__ has run, "constructed" once it returned    *)
(*   args      the arguments __init__ was called with                      *)
(*   param     self.param, a dictionary: pairs in insertion order          *)
(*   todo      the entries the option loop of __init__ has yet to send     *)
(*   log       what happened on the channel during __init__: the commands  *)
(*             written and the returns of the handshake, in order          *)
(*                                                                         *)
(* The locals of best_moves:                                               *)
(*   pv_moves  its list moves                                              *)
(*   pv_i      its loop variable i                                         *)
(*                                                                         *)
(*   position_sent  the last position command written to the child         *)
(***************************************************************************)
VARIABLES pc, call, stdin, stdout, lastline, last_line, ret, board, attrs,
          reads, sent,
          white, black, moves, winner, boards, step, runpc, runret, ended,
          phase, args, param, todo, log,
          pv_moves, pv_i,
          position_sent

clientvars == <<pc, call, stdin, stdout, lastline, last_line, ret, board,
                attrs, reads, sent>>

matchvars ==
    <<white, black, moves, winner, boards, step, runpc, runret, ended>>

ctorvars == <<phase, args, param, todo, log>>

searchvars == <<pv_moves, pv_i>>

vars == <<clientvars, matchvars, ctorvars, searchvars, position_sent>>

(***************************************************************************)
(* Bounds of the model.                                                    *)
(***************************************************************************)
\* The engine writes a line of its own accord only while the lines of the
\* running call, read and unread, are fewer than this.
MaxChatter == 2

\* Commands that may wait unread by the child when the caller makes a call.
MaxPending == 1

\* The most half-moves the caller has set_position put on the tracked board.
MaxPly == 2

\* Calls of move() the caller makes on a match after one returned False.
MaxCallsAfterEnd == 1

\* A search is started while at most this many lines are unread.
MaxUnread == 3

(***************************************************************************)
(* The child process: a UCI engine.  It takes the commands in order and    *)
(* answers as the protocol says; between commands it may write info lines  *)
(* of its own accord.                                                      *)
(***************************************************************************)
\* The option names this engine build knows: the build has "Contempt
\* Factor" and lacks "Contempt".
EngineOptionNames ==
    {N_PONDER, N_WRITE_DEBUG_LOG, N_CONTEMPT_FACTOR, N_MIN_SPLIT_DEPTH,
     N_THREADS, N_HASH, N_MULTIPV, N_SKILL_LEVEL, N_MOVE_OVERHEAD,
     N_MINIMUM_THINKING_TIME, N_SLOW_MOVER, N_UCI_CHESS960}

L_READYOK == READYOK \o EOL

\* The line the engine writes when it starts.
L_BANNER ==
    <<"S", "t", "o", "c", "k", "f", "i", "s", "h">> \o EOL

\* The last line of the engine's answer to uci.
L_UCIOK ==
    <<"u", "c", "i", "o", "k">> \o EOL

\* An info line the engine may write at any time; its text is free.
L_CHATTER ==
    <<"i", "n", "f", "o", " ", "s", "t", "r", "i", "n", "g", " ",
      "r", "e", "a", "d", "y", "o", "k", " ", "s", "o", "o", "n">> \o EOL

\* The engine's diagnostic for an option name it does not know.
NoSuchOptionLine(name) ==
    <<"N", "o", " ", "s", "u", "c", "h", " ", "o", "p", "t", "i", "o", "n",
      ":", " ">> \o name \o EOL

\* The last info line of a search: "info depth 2 score <kind> <n> pv a1b3".
InfoLine(kind, n) ==
    <<"i", "n", "f", "o", " ", "d", "e", "p", "t", "h", " ", "2", " ",
      "s", "c", "o", "r", "e", " ">> \o kind \o <<" ">> \o IntStr(n)
    \o <<" ", "p", "v", " ">> \o M_A1B3 \o EOL

CP == <<"c", "p">>

\* "bestmove <move>" followed by the given words.
BestmoveLine(move, words) ==
    LET RECURSIVE Join(_)
        Join(ws) == IF ws = <<>> THEN <<>>
                    ELSE <<" ">> \o Head(ws) \o Join(Tail(ws))
    IN  BESTMOVE \o <<" ">> \o move \o Join(words) \o EOL

PONDER_WORD == <<"p", "o", "n", "d", "e", "r">>

\* What the engine may write for one search of the client: at most one info
\* line, then the bestmove line.
ClientInfoLines == {InfoLine(CP, 20), InfoLine(MATE, 3)}

ClientBestmoveLines ==
    {BestmoveLine(M_A1B3, <<>>),
     BestmoveLine(NONE_PONDER, <<>>),
     BestmoveLine(M_A1B3, <<PONDER_WORD>>),
     BestmoveLine(M_A1B3, <<PONDER_WORD, M_A4B2>>),
     BestmoveLine(M_C1B3, <<PONDER_WORD, M_A4B2, M_NULL>>)}

ClientSearchOutputs ==
    {<<bm>> : bm \in ClientBestmoveLines}
    \cup {<<i, bm>> : i \in ClientInfoLines, bm \in ClientBestmoveLines}

(***************************************************************************)
(* class Engine: the protocol client.                                      *)
(***************************************************************************)
\* Engine.__init__'s defaults for depth and move_time.
depth == 10

move_time == 100

\* base_param of Engine.__init__, in the order of the dictionary.
base_param ==
    <<<<N_WRITE_DEBUG_LOG, PyText(<<"f", "a", "l", "s", "e">>)>>,
      <<N_CONTEMPT_FACTOR, PyInt(0)>>,
      <<N_CONTEMPT, PyInt(0)>>,
      <<N_MIN_SPLIT_DEPTH, PyInt(0)>>,
      <<N_THREADS, PyInt(1)>>,
      <<N_HASH, PyInt(16)>>,
      <<N_MULTIPV, PyInt(1)>>,
      <<N_SKILL_LEVEL, PyInt(20)>>,
      <<N_MOVE_OVERHEAD, PyInt(30)>>,
      <<N_MINIMUM_THINKING_TIME, PyInt(20)>>,
      <<N_SLOW_MOVER, PyInt(80)>>,
      <<N_UCI_CHESS960, PyText(<<"f", "a", "l", "s", "e">>)>>>>

\* The attributes Engine() has set when it returns: set_option('Ponder',
\* False), then set_option for every entry of base_param; the engine knows
\* all those names but one, and set_option records the ones it knows.
ConstructedAttrs ==
    LET known == {i \in 1..Len(base_param) :
                     base_param[i][1] \in EngineOptionNames}
        names == {base_param[i][1] : i \in known} \cup {N_PONDER}
    IN  [n \in names |->
            IF n = N_PONDER THEN PyBool(FALSE)
            ELSE base_param[CHOOSE i \in known : base_param[i][1] = n][2]]

\* Mutant of IsReadyok: a line that merely contains readyok ends the loop.
IsReadyokContained(text) == Find(text, READYOK) >= 0

\* Mutant of IsReadyok: the line is compared with its line end still on.
IsReadyokUnstripped(text) == text = READYOK \o EOL

\* is_ready's test of a line it has read and stripped.
IsReadyok(text) == text = READYOK

\* Mutant of IsRejected: the diagnostic is compared, not searched for.
IsRejectedExact(text) == text = NO_SUCH

\* set_option's test of what is_ready returned.
IsRejected(text) == Find(text, NO_SUCH) >= 0

\* set_option's command.
SetOptionCmd(option_name, value) ==
    [verb |-> "setoption", name |-> option_name, value |-> PyStr(value)]

\* setattr(self, option_name, value)
SetAttr(a, option_name, value) ==
    [n \in DOMAIN a \cup {option_name} |->
        IF n = option_name THEN value ELSE a[n]]

\* _move_list_to_str: every move followed by a blank, the whole stripped.
RECURSIVE ConcatRange(_, _, _)
ConcatRange(ms, lo, hi) ==
    IF lo > hi THEN <<>>
    ELSE IF lo = hi THEN ms[lo] \o <<" ">>
    ELSE LET mid == (lo + hi) \div 2
         IN  ConcatRange(ms, lo, mid) \o ConcatRange(ms, mid + 1, hi)

MoveListConcat(ms) == ConcatRange(ms, 1, Len(ms))

move_list_to_str(ms) == Strip(MoveListConcat(ms))

\* set_position's command.
PositionCmd(b, ms) ==
    [verb |-> "position", fen |-> Fen(b), moves |-> move_list_to_str(ms)]

\* One turn of set_position's loop: san = board.san(Move.from_uci(move));
\* board.push_san(san).  ok is FALSE where one of the three raises: the text
\* is no move, the move is not legal on the board, or the SAN does not name
\* exactly one legal move.
PushMove(b, move) ==
    LET u == FromUci(move)
    IN  IF ~u.ok THEN [ok |-> FALSE, board |-> b]
        ELSE IF u.move # NullMove /\ ~IsLegal(b, u.move)
        THEN [ok |-> FALSE, board |-> b]
        ELSE LET san == San(b, u.move)
                 meant == SanMatches(b, san)
             IN  IF Cardinality(meant) # 1 THEN [ok |-> FALSE, board |-> b]
                 ELSE [ok |-> TRUE,
                       board |-> Push(b, CHOOSE m \in meant : TRUE)]

\* set_position's loop over the moves ms[lo..hi], in order: it stops at the
\* first move that raises, with the board advanced by the moves before it.
\* (The range is halved only to keep the evaluation shallow.)
RECURSIVE PushRange(_, _, _, _)
PushRange(b, ms, lo, hi) ==
    IF lo > hi THEN [ok |-> TRUE, board |-> b]
    ELSE IF lo = hi THEN PushMove(b, ms[lo])
    ELSE LET mid == (lo + hi) \div 2
             first == PushRange(b, ms, lo, mid)
         IN  IF first.ok THEN PushRange(first.board, ms, mid + 1, hi)
             ELSE first

\* Mutant of PushMoves: the loop ends after its first turn.
PushMovesOnce(b, ms) ==
    IF ms = <<>> THEN [ok |-> TRUE, board |-> b] ELSE PushMove(b, Head(ms))

\* set_position's loop over all its moves.
PushMoves(b, ms) == PushRange(b, ms, 1, Len(ms))

\* go's command, without searchmoves.
GoCmd ==
    [verb |-> "go", depth |-> IntStr(depth), movetime |-> IntStr(move_time)]

\* best_move's test of a line it has read, stripped and split.
IsBestmove(split_text) == split_text[1] = BESTMOVE

\* Mutant of PonderOf: the word after the move is taken for the ponder move.
PonderOfShifted(split_text) ==
    IF Len(split_text) >= 3 THEN split_text[3] ELSE NONE_PONDER

\* best_move's ponder entry.
PonderOf(split_text) ==
    IF Len(split_text) >= 4 THEN split_text[4] ELSE NONE_PONDER

\* best_move's result for the bestmove line.
BestMoveResult(split_text, info) ==
    [move |-> split_text[2], info |-> info, ponder |-> PonderOf(split_text)]

\* No arguments: the client was made with the defaults.
NoArgs == [given |-> FALSE]

\* No command.
NoCommand == [verb |-> "none"]

NoResult == [of |-> "none", raised |-> FALSE, value |-> <<>>]

Returned(name, value) == [of |-> name, raised |-> FALSE, value |-> value]

Raised(name) == [of |-> name, raised |-> TRUE, value |-> <<>>]

\* The batches of moves a caller passes to set_position.
MoveBatches ==
    {<<>>, <<M_A1B3>>, <<M_C1B3, M_A4B2>>, <<M_NULL, M_A4B2>>,
     <<M_A1B3, M_A1B3>>}

\* set_fen_position's command: no moves follow the FEN.
FenPositionCmd(fen) == [verb |-> "position", fen |-> fen, moves |-> <<>>]

\* The texts a caller passes to set_fen_position: the FEN of the starting
\* arrangement, the FEN after a1b3, a FEN of two fields only, and a
\* placement that lacks a rank.
FenArgs ==
    {Fen(StartBoard),
     Fen(Push(StartBoard, FromUci(M_A1B3).move)),
     <<"n", "1", "n", "/", "3", "/", "3", "/", "N", "1", "N", " ", "b">>,
     <<"n", "1", "n", "/", "3", "/", "3", " ", "w", " ", "-", " ", "-",
       " ", "0", " ", "1">>}

\* The options a caller sets.
OptionCalls ==
    {<<N_HASH, PyInt(32)>>, <<N_SKILL_LEVEEL, PyInt(20)>>,
     <<N_CONTEMPT, PyInt(5)>>}

Init ==
    /\ pc = "idle"
    /\ call = [op |-> "none"]
    /\ stdin = <<>>
    /\ stdout = <<>>
    /\ lastline = <<>>
    /\ last_line = <<>>
    /\ ret = NoResult
    /\ board = StartBoard
    /\ attrs = ConstructedAttrs
    /\ reads = <<>>
    /\ sent = <<>>
    /\ white = "none"
    /\ black = "none"
    /\ moves = <<>>
    /\ winner = "None"
    /\ boards = <<>>
    /\ step = [outcome |-> "none"]
    /\ runpc = "idle"
    /\ runret = "None"
    /\ ended = 0
    /\ phase = "constructed"
    /\ args = NoArgs
    /\ param = base_param
    /\ todo = <<>>
    /\ log = <<>>
    /\ pv_moves = <<>>
    /\ pv_i = 0
    /\ position_sent = NoCommand

\* A call starts: the caller is not inside another call.
CanCall ==
    /\ phase = "constructed"
    /\ pc = "idle"
    /\ Len(stdin) <= MaxPending

\* put(command) for each of cmds, in order.
Put(cmds) ==
    /\ stdin' = stdin \o cmds
    /\ sent' = cmds

\* The first statements of is_ready, up to its first readline.
EnterIsReady ==
    /\ lastline' = <<>>
    /\ reads' = <<>>
    /\ pc' = "is_ready"

\* is_ready(), called by the caller itself.
is_ready ==
    /\ CanCall
    /\ call' = [op |-> "is_ready"]
    /\ Put(<<[verb |-> "isready"]>>)
    /\ EnterIsReady
    /\ ret' = NoResult
    /\ UNCHANGED <<stdout, last_line, board, attrs, matchvars, ctorvars, searchvars,
                   position_sent>>

\* set_option(option_name, value), up to is_ready's first readline.
set_option ==
    /\ CanCall
    /\ \E o \in OptionCalls :
          /\ call' = [op |-> "set_option", name |-> o[1], value |-> o[2],
                       before |-> attrs]
          /\ Put(<<SetOptionCmd(o[1], o[2]), [verb |-> "isready"]>>)
    /\ EnterIsReady
    /\ ret' = NoResult
    /\ UNCHANGED <<stdout, last_line, board, attrs, matchvars, ctorvars, searchvars,
                   position_sent>>

\* new_game(), up to is_ready's first readline.
new_game ==
    /\ CanCall
    /\ call' = [op |-> "new_game"]
    /\ Put(<<[verb |-> "ucinewgame"], [verb |-> "isready"]>>)
    /\ EnterIsReady
    /\ ret' = NoResult
    /\ UNCHANGED <<stdout, last_line, board, attrs, matchvars, ctorvars, searchvars,
                   position_sent>>

\* set_position(moves): the command is written, the moves are pushed on the
\* board, then is_ready is entered; a move that raises ends the call there.
set_position ==
    /\ CanCall
    /\ \E ms \in MoveBatches :
          /\ Ply(board) + Len(ms) <= MaxPly
          /\ LET r == PushMoves(board, ms)
             IN  /\ call' = [op |-> "set_position", moves |-> ms,
                             before |-> board]
                 /\ board' = r.board
                 /\ position_sent' = PositionCmd(board, ms)
                 /\ IF r.ok
                    THEN /\ Put(<<PositionCmd(board, ms),
                                  [verb |-> "isready"]>>)
                         /\ EnterIsReady
                         /\ ret' = NoResult
                    ELSE /\ Put(<<PositionCmd(board, ms)>>)
                         /\ ret' = Raised("set_position")
                         /\ pc' = "returned"
                         /\ UNCHANGED <<lastline, reads>>
    /\ UNCHANGED <<stdout, last_line, attrs, matchvars, ctorvars, searchvars>>

\* set_fen_position(fen): the command is written, the board is set from the
\* text, then is_ready is entered; a text set_fen raises on ends the call
\* there.
set_fen_position ==
    /\ CanCall
    /\ \E fen \in FenArgs :
          LET r == SetFen(fen)
          IN  /\ call' = [op |-> "set_fen_position", fen |-> fen,
                          before |-> board]
              /\ position_sent' = FenPositionCmd(fen)
              /\ IF r.ok
                 THEN /\ board' = r.board
                      /\ Put(<<FenPositionCmd(fen), [verb |-> "isready"]>>)
                      /\ EnterIsReady
                      /\ ret' = NoResult
                 ELSE /\ board' = board
                      /\ Put(<<FenPositionCmd(fen)>>)
                      /\ ret' = Raised("set_fen_position")
                      /\ pc' = "returned"
                      /\ UNCHANGED <<lastline, reads>>
    /\ UNCHANGED <<stdout, last_line, attrs, matchvars, ctorvars, searchvars>>

\* best_move(), up to its first readline.
best_move ==
    /\ CanCall
    /\ call' = [op |-> "best_move"]
    /\ Put(<<GoCmd>>)
    /\ last_line' = <<>>
    /\ reads' = <<>>
    /\ pc' = "best_move"
    /\ ret' = NoResult
    /\ UNCHANGED <<stdout, lastline, board, attrs, matchvars, ctorvars, searchvars,
                   position_sent>>

\* One turn of is_ready's loop: a line is read; on readyok is_ready returns
\* lastline and its caller runs on to its own return.
is_ready_read ==
    /\ pc = "is_ready"
    /\ stdout # <<>>
    /\ LET text == Strip(Head(stdout))
       IN  /\ stdout' = Tail(stdout)
           /\ reads' = Append(reads, Head(stdout))
           /\ IF IsReadyok(text)
              THEN /\ pc' = "returned"
                   /\ UNCHANGED lastline
                   /\ ret' = IF call.op = "is_ready"
                             THEN Returned("is_ready", lastline)
                             ELSE Returned(call.op, <<>>)
                   /\ attrs' = IF call.op = "set_option"
                                  /\ ~IsRejected(lastline)
                               THEN SetAttr(attrs, call.name, call.value)
                               ELSE attrs
                   /\ board' = IF call.op = "new_game" THEN StartBoard
                               ELSE board
              ELSE /\ lastline' = text
                   /\ UNCHANGED <<pc, ret, attrs, board>>
           /\ log' = IF IsReadyok(text) /\ phase # "constructed"
                     THEN Append(log, [ev |-> "ready", at |-> phase])
                     ELSE log
    /\ UNCHANGED <<call, stdin, last_line, sent, matchvars, phase, args,
                   param, todo, searchvars, position_sent>>

\* One turn of best_move's loop: a line is read; on the bestmove line the
\* result is built and returned.
best_move_read ==
    /\ pc = "best_move"
    /\ stdout # <<>>
    /\ LET text == Strip(Head(stdout))
           split_text == Split(text)
       IN  /\ stdout' = Tail(stdout)
           /\ reads' = Append(reads, Head(stdout))
           /\ IF IsBestmove(split_text)
              THEN /\ pc' = "returned"
                   /\ ret' = IF Len(split_text) < 2 THEN Raised("best_move")
                             ELSE Returned("best_move",
                                           BestMoveResult(split_text,
                                                          last_line))
                   /\ UNCHANGED last_line
              ELSE /\ last_line' = text
                   /\ UNCHANGED <<pc, ret>>
    /\ UNCHANGED <<call, stdin, lastline, board, attrs, sent,
                   matchvars, ctorvars, searchvars,
                   position_sent>>

\* The engine takes the next command and answers it; outputs is what it
\* may write for a search.
EngineAnswers(outputs) ==
    /\ stdin # <<>>
    /\ stdin' = Tail(stdin)
    /\ LET c == Head(stdin)
       IN  \/ /\ c.verb = "isready"
              /\ stdout' = Append(stdout, L_READYOK)
           \/ /\ c.verb = "setoption"
              /\ stdout' = IF c.name \in EngineOptionNames THEN stdout
                           ELSE Append(stdout, NoSuchOptionLine(c.name))
           \/ /\ c.verb \in {"ucinewgame", "position"}
              /\ stdout' = stdout
           \/ /\ c.verb = "uci"
              /\ stdout' = Append(stdout, L_UCIOK)
           \/ /\ c.verb = "go"
              /\ \E out \in outputs : stdout' = stdout \o out
    /\ UNCHANGED <<pc, call, lastline, last_line, ret, board, attrs, reads,
                   sent, matchvars, ctorvars, searchvars,
                   position_sent>>

\* The engine of a client that searches for one best move.
engine_answer == EngineAnswers(ClientSearchOutputs)

\* The engine writes an info line of its own accord.  A line written while
\* no call is in progress is read by the next call like one written at that
\* call's start, so only the lines written during a call are modelled.
engine_chatter ==
    /\ Len(reads) + Len(stdout) < MaxChatter
    /\ pc \in {"is_ready", "best_move", "best_moves"}
    /\ stdout' = Append(stdout, L_CHATTER)
    /\ UNCHANGED <<pc, call, stdin, lastline, last_line, ret, board, attrs,
                   reads, sent, matchvars, ctorvars, searchvars,
                   position_sent>>

\* The caller has the result of the call; the locals of the finished call
\* are gone.
call_returns ==
    /\ pc = "returned"
    /\ pc' = "idle"
    /\ call' = [op |-> "none"]
    /\ ret' = NoResult
    /\ lastline' = <<>>
    /\ last_line' = <<>>
    /\ reads' = <<>>
    /\ sent' = <<>>
    /\ UNCHANGED <<stdin, stdout, board, attrs, matchvars, ctorvars, searchvars,
                   position_sent>>

Next ==
    \/ is_ready
    \/ set_option
    \/ new_game
    \/ set_position
    \/ set_fen_position
    \/ best_move
    \/ is_ready_read
    \/ best_move_read
    \/ call_returns
    \/ engine_answer
    \/ engine_chatter

Spec == Init /\ [][Next]_vars

\* The operations that run nothing but the readiness handshake, with the
\* engine's side of them.
HandshakeNext ==
    \/ is_ready
    \/ set_option
    \/ new_game
    \/ is_ready_read
    \/ call_returns
    \/ engine_answer
    \/ engine_chatter

\* The scheduling the handshake relies on: the engine goes on taking the
\* commands it was sent (a compliant engine answers every isready), and a
\* readline that has a line to read returns it.
FairSpec ==
    /\ Init
    /\ [][HandshakeNext]_vars
    /\ WF_vars(engine_answer)
    /\ WF_vars(is_ready_read)

(***************************************************************************)
(* Notions the properties of the client are stated with.  They are         *)
(* defined on the lines and boards themselves, not by the client's code.   *)
(***************************************************************************)
\* The text of a line the engine wrote, without its line end.
LineText(line) == SubSeq(line, 1, Len(line) - Len(EOL))

\* The words of a text: its maximal runs of characters other than blanks.
Words(s) ==
    LET starts == {i \in 1..Len(s) :
                      s[i] # " " /\ (i = 1 \/ s[i - 1] = " ")}
        EndOf(i) == CHOOSE j \in i..Len(s) :
                       /\ \A k \in i..j : s[k] # " "
                       /\ (j = Len(s) \/ s[j + 1] = " ")
        RECURSIVE From(_)
        From(i) ==
            IF i > Len(s) THEN <<>>
            ELSE IF i \in starts
            THEN <<SubSeq(s, i, EndOf(i))>> \o From(EndOf(i) + 1)
            ELSE From(i + 1)
    IN  From(1)

\* The calls that run the readiness handshake.
HandshakeCalls ==
    {"is_ready", "set_option", "new_game", "set_position",
     "set_fen_position"}

\* The line read just before the last one, "" when only one was read.
LineBeforeLast(rs) ==
    IF Len(rs) >= 2 THEN LineText(rs[Len(rs) - 1]) ELSE <<>>

\* C1: the readiness handshake sends isready and does not return before a
\* line that is exactly readyok has been read: while it runs no line read so
\* far is readyok, and when it has returned the last line read is readyok,
\* no earlier one is, and the value it returned is the line read just
\* before that readyok (the empty string when readyok was the first line).
C1_HandshakeReturnsAfterReadyok ==
    /\ pc = "is_ready" =>
          /\ \A i \in 1..Len(reads) : LineText(reads[i]) # READYOK
          /\ \E i \in 1..Len(sent) : sent[i].verb = "isready"
    /\ (pc = "returned" /\ call.op \in HandshakeCalls /\ ~ret.raised) =>
          /\ \E i \in 1..Len(sent) : sent[i].verb = "isready"
          /\ reads # <<>>
          /\ LineText(reads[Len(reads)]) = READYOK
          /\ \A i \in 1..(Len(reads) - 1) : LineText(reads[i]) # READYOK
          /\ lastline = LineBeforeLast(reads)
          /\ call.op = "is_ready" => ret.value = LineBeforeLast(reads)

\* A handshake that read another line before readyok and returned it.
C1_Witness ==
    /\ pc = "returned"
    /\ call.op = "is_ready"
    /\ Len(reads) >= 2
    /\ ret.value = LineText(L_CHATTER)

\* C2: best_move returns as move the word right after bestmove, and as
\* ponder "(none)" when fewer than two words follow the move, the second
\* word after the move otherwise.
C2_BestMoveFields ==
    (pc = "returned" /\ call.op = "best_move") =>
        LET ws == Words(LineText(reads[Len(reads)]))
        IN  /\ ws[1] = BESTMOVE
            /\ ~ret.raised
            /\ ret.value.move = ws[2]
            /\ ret.value.ponder =
                  IF Len(ws) - 2 < 2 THEN NONE_PONDER ELSE ws[4]

\* A search that ended on "bestmove a1b3 ponder a4b2".
C2_Witness ==
    /\ pc = "returned"
    /\ call.op = "best_move"
    /\ LineText(reads[Len(reads)]) = LineText(BestmoveLine(M_A1B3, <<PONDER_WORD, M_A4B2>>))
    /\ ret.value.ponder = M_A4B2

\* The engine's diagnostic for an unknown option name starts the line.
CarriesDiagnostic(text) ==
    MatchesAt(text, LineText(NoSuchOptionLine(<<>>)), 0)

\* C7: when set_option returns, no error was raised; if the last line of
\* the handshake before readyok carries the unknown-option diagnostic the
\* recorded options are what they were before the call (no entry appears
\* for the name); if the engine knows the option, the recorded value of the
\* name is the value passed, whose text is the value sent.
C7_SetOptionRecords ==
    (pc = "returned" /\ call.op = "set_option") =>
        /\ ~ret.raised
        /\ CarriesDiagnostic(LineBeforeLast(reads)) =>
              /\ attrs = call.before
              /\ call.name \notin DOMAIN call.before =>
                    call.name \notin DOMAIN attrs
        /\ call.name \in EngineOptionNames =>
              /\ call.name \in DOMAIN attrs
              /\ attrs[call.name] = call.value
              /\ sent[1].verb = "setoption"
              /\ sent[1].name = call.name
              /\ sent[1].value = PyStr(attrs[call.name])

\* The misspelled option was rejected and is not recorded.
C7_Witness ==
    /\ pc = "returned"
    /\ call.op = "set_option"
    /\ call.name = N_SKILL_LEVEEL
    /\ CarriesDiagnostic(LineBeforeLast(reads))
    /\ N_SKILL_LEVEEL \notin DOMAIN attrs

\* Every move of ms is legal on the board the moves before it lead to.
RECURSIVE LegalInOrder(_, _)
LegalInOrder(b, ms) ==
    \/ ms = <<>>
    \/ /\ FromUci(Head(ms)).ok
       /\ IsLegal(b, FromUci(Head(ms)).move)
       /\ LegalInOrder(Push(b, FromUci(Head(ms)).move), Tail(ms))

\* The board b advanced by the moves ms, applied directly.
RECURSIVE Replay(_, _)
Replay(b, ms) ==
    IF ms = <<>> THEN b ELSE Replay(Push(b, FromUci(Head(ms)).move), Tail(ms))

\* C8: for moves legal in order from the tracked position P, set_position
\* sends exactly one position command, with the FEN of P and the moves in
\* the given order, and when it returns the tracked position is P advanced
\* by those moves in that order.
C8_SetPositionTracks ==
    (/\ call.op = "set_position"
     /\ pc \in {"is_ready", "returned"}
     /\ LegalInOrder(call.before, call.moves)) =>
        LET ps == {i \in 1..Len(sent) : sent[i].verb = "position"}
        IN  /\ ~ret.raised
            /\ Cardinality(ps) = 1
            /\ \A i \in ps :
                  /\ sent[i].fen = Fen(call.before)
                  /\ Words(sent[i].moves) = call.moves
            /\ pc = "returned" =>
                  /\ board = Replay(call.before, call.moves)
                  /\ Fen(board) = Fen(Replay(call.before, call.moves))

\* Two legal moves, the first needing a disambiguator in SAN, were tracked.
C8_Witness ==
    /\ pc = "returned"
    /\ call.op = "set_position"
    /\ call.moves = <<M_C1B3, M_A4B2>>
    /\ call.before = StartBoard
    /\ board.at[<<2, 3>>] = "N"
    /\ board.at[<<2, 2>>] = "n"

\* C9: every call of is_ready eventually returns, whatever the engine
\* writes before its readyok.
C9_HandshakeTerminates == (pc = "is_ready") ~> (pc = "returned")

\* A handshake that returned after two other lines and readyok.
C9_Witness ==
    /\ pc = "returned"
    /\ call.op \in HandshakeCalls
    /\ ~ret.raised
    /\ Len(reads) >= 3

(***************************************************************************)
(* Engine.__init__: the construction of a client.                          *)
(***************************************************************************)
\* A dictionary is a sequence of <<key, value>> pairs in insertion order.
KeysOf(d) == {d[k][1] : k \in 1..Len(d)}

\* d[key]
Lookup(d, key) == d[CHOOSE k \in 1..Len(d) : d[k][1] = key][2]

\* d[key] = value: a key the dictionary has keeps its place, a new key goes
\* to the end.
SetItem(d, key, value) ==
    IF key \in KeysOf(d)
    THEN [k \in 1..Len(d) |-> IF d[k][1] = key THEN <<key, value>> ELSE d[k]]
    ELSE Append(d, <<key, value>>)

\* Mutant of Update: an entry the dictionary has is kept.
RECURSIVE UpdateNewOnly(_, _)
UpdateNewOnly(d, other) ==
    IF other = <<>> THEN d
    ELSE UpdateNewOnly(IF Head(other)[1] \in KeysOf(d) THEN d
                       ELSE Append(d, Head(other)),
                       Tail(other))

\* d.update(other)
RECURSIVE Update(_, _)
Update(d, other) ==
    IF other = <<>> THEN d
    ELSE Update(SetItem(d, Head(other)[1], Head(other)[2]), Tail(other))

\* random.randint(a, b): the values it may return.
Randint(a, b) == a..b

\* base_param after "if rand:", with c and cf the two numbers drawn: each
\* assignment ends in a comma and so stores a tuple of one number.
Randomized(d, c, cf) ==
    SetItem(SetItem(d, N_CONTEMPT, PyTuple(c)), N_CONTEMPT_FACTOR, PyTuple(cf))

\* The param dictionaries callers pass.
ParamArgs ==
    {<<>>,
     <<<<N_HASH, PyInt(32)>>>>,
     <<<<N_SKILL_LEVEEL, PyInt(20)>>, <<N_CONTEMPT_FACTOR, PyInt(7)>>>>}

\* The pairs rand_min, rand_max callers pass with rand=True.
RandBounds == {<<0 - 1, 0>>, <<2, 2>>}

\* The arguments of Engine(...).
CtorArgs ==
    {[given |-> TRUE, ponder |-> po, param |-> pa, rand |-> FALSE,
      rand_min |-> 0 - 10, rand_max |-> 10] :
        po \in BOOLEAN, pa \in ParamArgs}
    \cup {[given |-> TRUE, ponder |-> po, param |-> pa, rand |-> TRUE,
           rand_min |-> rb[1], rand_max |-> rb[2]] :
             po \in BOOLEAN, pa \in ParamArgs, rb \in RandBounds}

\* Engine(...) is called: the child process is spawned and writes its
\* banner.
ConstructInit ==
    /\ pc = "idle"
    /\ call = [op |-> "none"]
    /\ stdin = <<>>
    /\ stdout = <<L_BANNER>>
    /\ lastline = <<>>
    /\ last_line = <<>>
    /\ ret = NoResult
    /\ board = StartBoard
    /\ attrs = <<>>
    /\ reads = <<>>
    /\ sent = <<>>
    /\ white = "none"
    /\ black = "none"
    /\ moves = <<>>
    /\ winner = "None"
    /\ boards = <<>>
    /\ step = [outcome |-> "none"]
    /\ runpc = "idle"
    /\ runret = "None"
    /\ ended = 0
    /\ phase = "spawned"
    /\ args \in CtorArgs
    /\ param = <<>>
    /\ todo = <<>>
    /\ log = <<>>
    /\ pv_moves = <<>>
    /\ pv_i = 0
    /\ position_sent = NoCommand

\* The commands cmds are written during __init__.
Logged(cmds, at) ==
    log' = log \o [k \in 1..Len(cmds) |->
                      [ev |-> "put", cmd |-> cmds[k], at |-> at]]

\* self.readline(); self.put('uci'); self.is_ready() up to its first
\* readline.
init_uci ==
    /\ phase = "spawned"
    /\ stdout # <<>>
    /\ stdout' = Tail(stdout)
    /\ phase' = "uci"
    /\ call' = [op |-> "is_ready"]
    /\ Put(<<[verb |-> "uci"], [verb |-> "isready"]>>)
    /\ Logged(<<[verb |-> "uci"], [verb |-> "isready"]>>, "uci")
    /\ EnterIsReady
    /\ ret' = NoResult
    /\ UNCHANGED <<last_line, board, attrs, matchvars, args, param, todo,
                   searchvars, position_sent>>

\* A set_option call made by __init__, up to is_ready's first readline.
InitSetOption(option_name, value, at) ==
    /\ call' = [op |-> "set_option", name |-> option_name, value |-> value,
                 before |-> attrs]
    /\ Put(<<SetOptionCmd(option_name, value), [verb |-> "isready"]>>)
    /\ Logged(<<SetOptionCmd(option_name, value), [verb |-> "isready"]>>, at)
    /\ EnterIsReady
    /\ ret' = NoResult

\* if not ponder: self.set_option('Ponder', False)
init_ponder ==
    /\ phase = "uci"
    /\ pc = "idle"
    /\ phase' = "ponder"
    /\ IF ~args.ponder
       THEN InitSetOption(N_PONDER, PyBool(FALSE), "ponder")
       ELSE UNCHANGED <<pc, call, stdin, sent, lastline, reads, ret, log>>
    /\ UNCHANGED <<stdout, last_line, board, attrs, matchvars, args, param,
                   todo, searchvars, position_sent>>

\* base_param is built, randomized when rand is set, and updated with
\* param; self.param is that dictionary and the option loop will go
\* through its items.
init_param ==
    /\ phase = "ponder"
    /\ pc = "idle"
    /\ phase' = "options"
    /\ \E c, cf \in Randint(args.rand_min, args.rand_max) :
          LET d == IF args.rand THEN Randomized(base_param, c, cf)
                   ELSE base_param
          IN  /\ param' = Update(d, args.param)
              /\ todo' = Update(d, args.param)
    /\ UNCHANGED <<clientvars, matchvars, args, log, searchvars,
                   position_sent>>

\* One turn of the option loop: self.set_option(name, value).
init_option ==
    /\ phase = "options"
    /\ pc = "idle"
    /\ todo # <<>>
    /\ InitSetOption(Head(todo)[1], Head(todo)[2], "options")
    /\ todo' = Tail(todo)
    /\ UNCHANGED <<stdout, last_line, board, attrs, matchvars, phase, args,
                   param, searchvars, position_sent>>

\* The option loop is over: self.board = chess.Board(), and Engine(...)
\* returns.
init_board ==
    /\ phase = "options"
    /\ pc = "idle"
    /\ todo = <<>>
    /\ phase' = "constructed"
    /\ board' = StartBoard
    /\ UNCHANGED <<pc, call, stdin, stdout, lastline, last_line, ret, attrs,
                   reads, sent, matchvars, args, param, todo, log,
                   searchvars, position_sent>>

\* A client is constructed and then has options set.
ConstructNext ==
    \/ init_uci
    \/ init_ponder
    \/ init_param
    \/ init_option
    \/ init_board
    \/ set_option
    \/ is_ready_read
    \/ call_returns
    \/ engine_answer
    \/ engine_chatter

ConstructSpec == ConstructInit /\ [][ConstructNext]_vars

(***************************************************************************)
(* Properties of the construction.                                         *)
(***************************************************************************)
\* What happened on the channel during the option loop of __init__.
OptionLoopLog ==
    LET InLoop(e) == e.at = "options"
    IN  SelectSeq(log, InLoop)

\* The two options "if rand:" assigns.
RandomizedNames == {N_CONTEMPT, N_CONTEMPT_FACTOR}

\* C11: when Engine(...) has returned, the option loop has sent exactly one
\* setoption command for every option name of the baseline or of the
\* caller's param and for no other name; the value sent is the text of the
\* caller's value when the caller gave the name and of the baseline's
\* otherwise (the two contempt options of a randomized baseline are the
\* subject of C19); and every setoption command is followed by isready and
\* by the return of the handshake before the next command is written.
C11_OptionLoopSendsMerged ==
    phase = "constructed" =>
        LET loop == OptionLoopLog
            puts == {k \in 1..Len(loop) :
                        loop[k].ev = "put" /\ loop[k].cmd.verb = "setoption"}
            names == KeysOf(base_param) \cup KeysOf(args.param)
        IN  /\ \A n \in names :
                  Cardinality({k \in puts : loop[k].cmd.name = n}) = 1
            /\ \A k \in puts :
                  /\ loop[k].cmd.name \in names
                  /\ loop[k].cmd.name \in KeysOf(args.param) =>
                        loop[k].cmd.value =
                           PyStr(Lookup(args.param, loop[k].cmd.name))
                  /\ (/\ loop[k].cmd.name \notin KeysOf(args.param)
                      /\ ~(args.rand /\ loop[k].cmd.name \in RandomizedNames))
                     => loop[k].cmd.value =
                           PyStr(Lookup(base_param, loop[k].cmd.name))
                  /\ k + 2 <= Len(loop)
                  /\ loop[k + 1].ev = "put"
                  /\ loop[k + 1].cmd.verb = "isready"
                  /\ loop[k + 2].ev = "ready"
            /\ Len(loop) = 3 * Cardinality(names)

\* A client was made with a param that overrides a baseline entry and adds
\* a name, and the loop has sent the caller's value for the overridden one.
C11_Witness ==
    /\ phase = "constructed"
    /\ N_SKILL_LEVEEL \in KeysOf(args.param)
    /\ \E k \in 1..Len(OptionLoopLog) :
          /\ OptionLoopLog[k].ev = "put"
          /\ OptionLoopLog[k].cmd.verb = "setoption"
          /\ OptionLoopLog[k].cmd.name = N_CONTEMPT_FACTOR
          /\ OptionLoopLog[k].cmd.value = <<"7">>

(***************************************************************************)
(* class Match: the orchestrator.                                          *)
(***************************************************************************)
\* The keys of the engines dictionary a match is made with.
EngineNames == {"shallow", "deep"}

\* The move count above which move() plays no more.
MoveCeiling == 200

\* An info line of free text, as an engine may write when the side to move
\* has no move: "info string stalemate".
L_INFO_STALEMATE ==
    <<"i", "n", "f", "o", " ", "s", "t", "r", "i", "n", "g", " ",
      "s", "t", "a", "l", "e", "m", "a", "t", "e">> \o EOL

\* What an engine may write for one search of a match: at most one info
\* line, then the bestmove line, with or without a ponder move.
MatchInfoLines ==
    {InfoLine(CP, 20), InfoLine(MATE, 3), InfoLine(MATE, 12),
     InfoLine(MATE, 1), InfoLine(MATE, 0 - 2), InfoLine(MATE, 0)}

MatchSearchOutputs ==
    {<<InfoLine(CP, 20), BestmoveLine(m, <<PONDER_WORD, M_NULL>>)>> :
        m \in {M_NULL, M_A1B3}}
    \cup {<<InfoLine(MATE, 0 - 2),
             BestmoveLine(M_NULL, <<PONDER_WORD, M_NULL>>)>>}
    \cup {<<i, BestmoveLine(M_NULL, <<>>)>> : i \in MatchInfoLines}
    \cup {<<InfoLine(MATE, 0), BestmoveLine(NONE_PONDER, <<>>)>>,
          <<L_INFO_STALEMATE, BestmoveLine(NONE_PONDER, <<>>)>>,
          <<BestmoveLine(M_NULL, <<>>)>>}

\* best_move's loop run over the lines the engine writes for the search.
RECURSIVE BestMoveLoop(_, _)
BestMoveLoop(lines, info) ==
    LET text == Strip(Head(lines))
        split_text == Split(text)
    IN  IF IsBestmove(split_text) THEN BestMoveResult(split_text, info)
        ELSE BestMoveLoop(Tail(lines), text)

\* Mutant of AtCeiling: the test lets one more move through.
AtCeilingLate(ms) == Len(ms) > MoveCeiling + 1

\* move()'s first test.
AtCeiling(ms) == Len(ms) > MoveCeiling

\* Mutant of ActiveName: the engine playing white is always the active one.
ActiveNameWhite(ms, w, b) == w

\* move()'s choice of the active engine by the parity of the move count.
ActiveName(ms, w, b) == IF Len(ms) % 2 = 1 THEN b ELSE w

InactiveName(ms, w, b) == IF Len(ms) % 2 = 1 THEN w ELSE b

\* move()'s test of the ponder entry.
HasPonder(ponder) == ponder # NONE_PONDER

\* info.find('mate')
MateLoc(info) == Find(info, MATE)

\* int(info[mateloc+5]): [ok, value]; ok is FALSE where it raises, the
\* index being past the end of info or the character no decimal digit.
MateNum(info) ==
    LET i == MateLoc(info) + 5
    IN  IF i >= Len(info) THEN [ok |-> FALSE, value |-> 0]
        ELSE IF ~IsDigit(info[i + 1]) THEN [ok |-> FALSE, value |-> 0]
        ELSE [ok |-> TRUE, value |-> DigitValue(info[i + 1])]

\* Mutant of WinnerAfter: a mate in one is not counted.
WinnerAfterOne(w, matenum, active, inactive) ==
    IF matenum > 1 THEN active
    ELSE IF matenum < 0 THEN inactive
    ELSE w

\* self.winner after move()'s tests of matenum.
WinnerAfter(w, matenum, active, inactive) ==
    IF matenum > 0 THEN active
    ELSE IF matenum < 0 THEN inactive
    ELSE w

\* No call of move() is in progress.  Of a call, step keeps the engines it
\* named active and inactive, the tracked board the active engine had, the
\* commands written to each engine, whether best_move was called and what
\* it returned, len(self.moves) and self.winner at the start, and how the
\* call ended.
NoStep ==
    [outcome |-> "none", active |-> "none", inactive |-> "none",
     searched |-> FALSE,
     result |-> [move |-> <<>>, info |-> <<>>, ponder |-> <<>>],
     count_before |-> 0, winner_before |-> "None",
     before |-> StartBoard,
     cmds |-> [n \in EngineNames |-> <<>>]]

\* Match(engines): the colours are drawn, both engines get new_game().
MatchInit ==
    /\ pc = "idle"
    /\ call = [op |-> "none"]
    /\ stdin = <<>>
    /\ stdout = <<>>
    /\ lastline = <<>>
    /\ last_line = <<>>
    /\ ret = NoResult
    /\ board = StartBoard
    /\ attrs = ConstructedAttrs
    /\ reads = <<>>
    /\ sent = <<>>
    /\ white \in EngineNames
    /\ black \in EngineNames \ {white}
    /\ moves = <<>>
    /\ winner = "None"
    /\ boards = [n \in EngineNames |-> StartBoard]
    /\ step = NoStep
    /\ runpc = "idle"
    /\ runret = "None"
    /\ ended = 0
    /\ phase = "constructed"
    /\ args = NoArgs
    /\ param = base_param
    /\ todo = <<>>
    /\ log = <<>>
    /\ pv_moves = <<>>
    /\ pv_i = 0
    /\ position_sent = NoCommand

\* The body of move().  The active engine is given the whole history by
\* set_position, whose handshake returns for the engines of a match, and is
\* asked for its best move; out is what it writes for that search.  The
\* call ends by returning True or False, or by raising: set_position on a
\* move it cannot push, int() on a character that is no digit.
MoveBody ==
    /\ step.outcome = "none"
    /\ IF AtCeiling(moves)
       THEN /\ step' = [NoStep EXCEPT !.outcome = "False",
                                      !.count_before = Len(moves),
                                      !.winner_before = winner]
            /\ UNCHANGED <<moves, winner, boards>>
       ELSE LET active == ActiveName(moves, white, black)
                inactive == InactiveName(moves, white, black)
                r == PushMoves(boards[active], moves)
                position == PositionCmd(boards[active], moves)
                entry == [NoStep EXCEPT !.active = active,
                                        !.inactive = inactive,
                                        !.count_before = Len(moves),
                                        !.winner_before = winner,
                                        !.before = boards[active],
                                        !.cmds[active] = <<position>>]
            IN  /\ boards' = [boards EXCEPT ![active] = r.board]
                /\ IF ~r.ok
                   THEN /\ step' = [entry EXCEPT !.outcome = "raised"]
                        /\ UNCHANGED <<moves, winner>>
                   ELSE \E out \in MatchSearchOutputs :
                           LET move_dict == BestMoveLoop(out, <<>>)
                               done == [entry EXCEPT
                                          !.searched = TRUE,
                                          !.result = move_dict,
                                          !.cmds[active] =
                                             <<position,
                                               [verb |-> "isready"], GoCmd>>]
                               matenum == MateNum(move_dict.info)
                           IN  /\ moves' = Append(moves, move_dict.move)
                               /\ IF HasPonder(move_dict.ponder)
                                  THEN /\ step' = [done EXCEPT
                                                     !.outcome = "True"]
                                       /\ UNCHANGED winner
                                  ELSE IF MateLoc(move_dict.info) < 0
                                  THEN /\ step' = [done EXCEPT
                                                     !.outcome = "False"]
                                       /\ UNCHANGED winner
                                  ELSE IF ~matenum.ok
                                  THEN /\ step' = [done EXCEPT
                                                     !.outcome = "raised"]
                                       /\ UNCHANGED winner
                                  ELSE /\ step' = [done EXCEPT
                                                     !.outcome = "False"]
                                       /\ winner' = WinnerAfter(winner,
                                             matenum.value, active, inactive)

\* move(), called by the caller itself; after a call has returned False
\* the caller makes at most MaxCallsAfterEnd more.
move ==
    /\ runpc # "running"
    /\ ended <= MaxCallsAfterEnd
    /\ MoveBody
    /\ ended' = IF ended > 0 \/ step'.outcome = "False" THEN ended + 1
                 ELSE ended
    /\ UNCHANGED <<white, black, runpc, runret, clientvars, ctorvars, searchvars,
                   position_sent>>

\* run() is called.
run ==
    /\ runpc = "idle"
    /\ step.outcome = "none"
    /\ moves = <<>>
    /\ runpc' = "running"
    /\ UNCHANGED <<white, black, moves, winner, boards, step, runret, ended,
                   clientvars, ctorvars, searchvars,
                   position_sent>>

\* One turn of run()'s loop: move() is called; when it returns False run()
\* returns self.winner, when it raises so does run().
run_move ==
    /\ runpc = "running"
    /\ MoveBody
    /\ runpc' = IF step'.outcome = "False" THEN "returned"
                ELSE IF step'.outcome = "raised" THEN "raised"
                ELSE "running"
    /\ runret' = IF step'.outcome = "False" THEN winner' ELSE runret
    /\ ended' = IF step'.outcome = "False" THEN 1 ELSE ended
    /\ UNCHANGED <<white, black, clientvars, ctorvars, searchvars,
                   position_sent>>

\* The caller has the result of move(); an exception ends the match.
move_returns ==
    /\ step.outcome \in {"True", "False"}
    /\ step' = NoStep
    /\ UNCHANGED <<white, black, moves, winner, boards, runpc, runret, ended,
                   clientvars, ctorvars, searchvars,
                   position_sent>>

MatchNext ==
    \/ move
    \/ run
    \/ run_move
    \/ move_returns

MatchSpec == MatchInit /\ [][MatchNext]_vars

(***************************************************************************)
(* Notions the properties of the match are stated with, defined on the     *)
(* words of the info line.                                                 *)
(***************************************************************************)
\* A word that is a decimal number without sign.
IsNumber(w) == w # <<>> /\ \A i \in 1..Len(w) : IsDigit(w[i])

\* A positive integer of any number of digits.
IsPositiveNumber(w) ==
    IsNumber(w) /\ \E i \in 1..Len(w) : w[i] # "0"

\* A negative integer: a minus sign before a positive one.
IsNegativeNumber(w) ==
    Len(w) >= 2 /\ w[1] = "-" /\ IsPositiveNumber(Tail(w))

HasMateWord(info) == \E i \in 1..Len(Words(info)) : Words(info)[i] = MATE

\* The info line has the word mate followed by a positive distance.
HasPositiveMate(info) ==
    LET ws == Words(info)
    IN  \E i \in 1..(Len(ws) - 1) :
           ws[i] = MATE /\ IsPositiveNumber(ws[i + 1])

\* The info line has the word mate followed by a negative distance.
HasNegativeMate(info) ==
    LET ws == Words(info)
    IN  \E i \in 1..(Len(ws) - 1) :
           ws[i] = MATE /\ IsNegativeNumber(ws[i + 1])

\* The last call of move() searched and its result names no ponder move.
SearchedNoPonder == step.searched /\ step.result.ponder = NONE_PONDER

\* C3: when the search result of move() has no ponder move and its info
\* line has the word mate followed by a positive distance of any number of
\* digits, the active engine is recorded as winner and move() returns
\* False.
C3_PositiveMateActiveWins ==
    (SearchedNoPonder /\ HasPositiveMate(step.result.info)) =>
        /\ step.outcome = "False"
        /\ winner = step.active
        /\ winner \in EngineNames

\* A mate distance of two digits made the active engine the winner.
C3_Witness ==
    /\ SearchedNoPonder
    /\ step.result.info = LineText(InfoLine(MATE, 12))
    /\ step.outcome = "False"
    /\ winner = step.active

\* C4: when the search result of move() has no ponder move and its info
\* line has the word mate followed by a negative distance, the inactive
\* engine is recorded as winner and move() returns False.
C4_NegativeMateInactiveWins ==
    (SearchedNoPonder /\ HasNegativeMate(step.result.info)) =>
        /\ step.outcome = "False"
        /\ winner = step.inactive

\* C5: when the search result of move() has no ponder move and its info
\* line has no word mate, move() returns False and records no winner; when
\* the result has a ponder move, move() returns True and records no winner,
\* whatever the info line says.
C5_DrawOrContinue ==
    /\ (SearchedNoPonder /\ ~HasMateWord(step.result.info)) =>
          /\ step.outcome = "False"
          /\ winner = step.winner_before
    /\ (step.searched /\ step.result.ponder # NONE_PONDER) =>
          /\ step.outcome = "True"
          /\ winner = step.winner_before

\* C6: the history never holds more than 201 moves, and a call of move()
\* made with more than 200 moves in the history appends nothing, asks no
\* engine and returns False.
C6_MoveCeiling ==
    /\ Len(moves) <= 201
    /\ (step.outcome # "none" /\ step.count_before > 200) =>
          /\ step.outcome = "False"
          /\ ~step.searched
          /\ Len(moves) = step.count_before

\* move() was called with 201 moves in the history and returned False.
C6_Witness ==
    /\ Len(moves) = 201
    /\ step.count_before = 201
    /\ step.outcome = "False"

\* run() has just returned: its last call of move() returned False and no
\* call was made since.
RunHasReturned ==
    runpc = "returned" /\ step.outcome = "False" /\ ended = 1

\* C10: when run() returns, the history holds at most 200 moves and the
\* value returned is the recorded winner (None when none was recorded).
C10_RunStopsAt200 ==
    RunHasReturned =>
        /\ Len(moves) <= 200
        /\ runret = winner

\* The board b after the moves ms[lo..hi] played on it in order, each the
\* null move or a legal move where it is played; ok is FALSE when one of
\* them is neither.  (The range is halved to keep the evaluation shallow.)
RECURSIVE Played(_, _, _, _)
Played(b, ms, lo, hi) ==
    IF lo > hi THEN [ok |-> TRUE, board |-> b]
    ELSE IF lo = hi
    THEN LET u == FromUci(ms[lo])
         IN  IF u.ok /\ (u.move = NullMove \/ IsLegal(b, u.move))
             THEN [ok |-> TRUE, board |-> Push(b, u.move)]
             ELSE [ok |-> FALSE, board |-> b]
    ELSE LET mid == (lo + hi) \div 2
             first == Played(b, ms, lo, mid)
         IN  IF first.ok THEN Played(first.board, ms, mid + 1, hi)
             ELSE first

\* The history of the match at the start of the last call of move().
HistoryBefore == SubSeq(moves, 1, step.count_before)

\* The last call of move() has called set_position.
PositionWasSet ==
    step.outcome # "none" /\ step.active \in EngineNames
    /\ step.cmds[step.active] # <<>>

\* C12: at every call of move() that gives the history to the active
\* engine, the history being playable from the starting arrangement, the
\* position command describes the position the history leads to from the
\* starting arrangement (its FEN is that of the active engine's tracked
\* board, its moves are playable from that board and lead to that
\* position), set_position does not raise, and afterwards the active
\* engine's tracked board is that position.
C12_StepCommunicatesHistory ==
    (PositionWasSet
     /\ Played(StartBoard, HistoryBefore, 1, step.count_before).ok) =>
        LET cmd == step.cmds[step.active][1]
            ws == Words(cmd.moves)
            reached == Played(StartBoard, HistoryBefore, 1,
                              step.count_before).board
            told == Played(step.before, ws, 1, Len(ws))
        IN  /\ cmd.verb = "position"
            /\ cmd.fen = Fen(step.before)
            /\ told.ok
            /\ Fen(told.board) = Fen(reached)
            /\ Len(step.cmds[step.active]) >= 2
            /\ boards[step.active] = reached

(***************************************************************************)
(* Properties of the tracked position.                                     *)
(***************************************************************************)
\* The position a position command describes: the board of its FEN after
\* its moves; ok is FALSE when the FEN is none or a move is not playable.
Described(cmd) ==
    LET s == SetFen(cmd.fen)
        ws == Words(cmd.moves)
    IN  IF s.ok THEN Played(s.board, ws, 1, Len(ws))
        ELSE [ok |-> FALSE, board |-> StartBoard]

\* C13: whenever the client is idle and the last position command written
\* describes a position, the tracked board is that position.
C13_TrackedIsLastCommanded ==
    (/\ phase = "constructed"
     /\ pc = "idle"
     /\ position_sent.verb = "position"
     /\ Described(position_sent).ok) =>
        board = Described(position_sent).board

\* The number of moves of ms playable in order from b, up to the first
\* that is not.
PlayablePrefix(b, ms) ==
    CHOOSE k \in 0..Len(ms) :
       /\ Played(b, ms, 1, k).ok
       /\ k < Len(ms) => ~Played(b, ms, 1, k + 1).ok

\* C17: when set_position is given moves of which one is not legal where
\* it is played, the call raises, the tracked board is the board it started
\* from advanced by the moves before that one and by no later move, and
\* the handshake for the position command is completed: isready was
\* written and readyok was read.
C17_IllegalMoveStillHandshakes ==
    (/\ pc = "returned"
     /\ call.op = "set_position"
     /\ ~Played(call.before, call.moves, 1, Len(call.moves)).ok) =>
        /\ ret.raised
        /\ board = Played(call.before, call.moves, 1,
                          PlayablePrefix(call.before, call.moves)).board
        /\ \E k \in 1..Len(sent) : sent[k].verb = "position"
        /\ \E k \in 1..Len(sent) : sent[k].verb = "isready"
        /\ reads # <<>>
        /\ LineText(reads[Len(reads)]) = READYOK

\* The last call of move() was made after a call had returned False.
CalledAfterEnd == step.outcome # "none" /\ ended >= 2

\* C14: a call of move() made after a call has returned False leaves the
\* history and the winner as they were and writes nothing to either
\* engine.
C14_ImmutableAfterEnd ==
    CalledAfterEnd =>
        /\ Len(moves) = step.count_before
        /\ winner = step.winner_before
        /\ \A n \in EngineNames : step.cmds[n] = <<>>

\* C15: in every call of move() that names an active engine, that engine
\* is the one playing white exactly when the number of moves in the history
\* is even and the one playing black when it is odd, the inactive engine is
\* the other one, every command of the call is written to the active
\* engine and none to the inactive one, and a move appended by the call is
\* the move the active engine returned: so the k-th move of the history
\* comes from white exactly when k is odd.
C15_TurnAlternation ==
    (step.outcome # "none" /\ step.active \in EngineNames) =>
        /\ white # black
        /\ step.active = (IF step.count_before % 2 = 0 THEN white ELSE black)
        /\ step.inactive = (IF step.count_before % 2 = 0 THEN black ELSE white)
        /\ step.cmds[step.inactive] = <<>>
        /\ step.searched =>
              /\ \E k \in 1..Len(step.cmds[step.active]) :
                    step.cmds[step.active][k].verb = "go"
              /\ Len(moves) = step.count_before + 1
              /\ moves[Len(moves)] = step.result.move
        /\ ~step.searched => Len(moves) = step.count_before

\* The second move of a match was searched by the engine playing black.
C15_Witness ==
    /\ step.searched
    /\ step.count_before = 1
    /\ step.active = black
    /\ step.cmds[white] = <<>>
    /\ Len(moves) = 2

(***************************************************************************)
(* Engine.best_moves: the search for the best move of every rank.          *)
(***************************************************************************)
\* int(text): [ok, value]; ok is FALSE where it raises ValueError.
ParseInt(t) ==
    IF t # <<>> /\ Head(t) = "-"
    THEN LET n == ParseNat(Tail(t))
         IN  [ok |-> n.ok, value |-> 0 - n.value]
    ELSE ParseNat(t)

\* list.index(x), 1-based; 0 where it raises ValueError.
FirstIndex(list, x) ==
    LET hits == {k \in 1..Len(list) : list[k] = x}
    IN  IF hits = {} THEN 0
        ELSE CHOOSE k \in hits : \A j \in hits : k <= j

\* int(split_text[split_text.index(key)+1]): the value, or the exception
\* it raises.
IntAfter(split_text, key) ==
    LET k == FirstIndex(split_text, key)
    IN  IF k = 0 THEN [outcome |-> "ValueError", value |-> 0]
        ELSE IF k + 1 > Len(split_text)
        THEN [outcome |-> "IndexError", value |-> 0]
        ELSE IF ~ParseInt(split_text[k + 1]).ok
        THEN [outcome |-> "ValueError", value |-> 0]
        ELSE [outcome |-> "ok", value |-> ParseInt(split_text[k + 1]).value]

\* split_text[split_text.index('pv')+1]: the move, or the exception raised.
MoveAfterPv(split_text) ==
    LET k == FirstIndex(split_text, PV)
    IN  IF k = 0 THEN [outcome |-> "ValueError", move |-> <<>>]
        ELSE IF k + 1 > Len(split_text)
        THEN [outcome |-> "IndexError", move |-> <<>>]
        ELSE [outcome |-> "ok", move |-> split_text[k + 1]]

\* Mutant of RankMatches: the depth of the line is not looked at.
RankMatchesAnyDepth(pv_num, d, rank) == pv_num = rank

\* best_moves' test of an info line: pv_num == i and depth == self.depth.
RankMatches(pv_num, d, rank) == pv_num = rank /\ d = depth

\* What best_moves does with a line it has read, stripped and split, while
\* it looks for rank: "skip" (the loop goes on), "take" (the move is
\* appended), "bestmove" (the loops end) or "raise".
LineOutcome(split_text, rank) ==
    IF split_text[1] = INFO
    THEN LET d == IntAfter(split_text, DEPTH)
             n == IntAfter(split_text, MULTIPV)
             m == MoveAfterPv(split_text)
         IN  IF d.outcome = "IndexError" THEN [do |-> "raise", move |-> <<>>]
             ELSE IF d.outcome = "ValueError"
             THEN [do |-> "skip", move |-> <<>>]
             ELSE IF n.outcome = "IndexError"
             THEN [do |-> "raise", move |-> <<>>]
             ELSE IF n.outcome = "ValueError"
             THEN [do |-> "skip", move |-> <<>>]
             ELSE IF ~RankMatches(n.value, d.value, rank)
             THEN [do |-> "skip", move |-> <<>>]
             ELSE IF m.outcome # "ok" THEN [do |-> "raise", move |-> <<>>]
             ELSE [do |-> "take", move |-> m.move]
    ELSE IF split_text[1] = BESTMOVE THEN [do |-> "bestmove", move |-> <<>>]
    ELSE [do |-> "skip", move |-> <<>>]

\* n_lines = self.MultiPV
NLines == attrs[N_MULTIPV].int

\* "info depth <d> multipv <k> score cp 20 pv <move>"
PvLine(d, k, mv) ==
    INFO \o <<" ">> \o DEPTH \o <<" ">> \o IntStr(d) \o <<" ">> \o MULTIPV
    \o <<" ">> \o IntStr(k)
    \o <<" ", "s", "c", "o", "r", "e", " ", "c", "p", " ", "2", "0", " ">>
    \o PV \o <<" ">> \o mv \o EOL

\* What the engine may write for one search when it reports the lines of
\* two ranks: the ranks in order, a shallower line first, the search ended
\* after the first rank, the second rank before the first, the second rank
\* before the first and once more after it, a line without the multipv
\* field first, and the bestmove line alone.
PvSearchOutputs ==
    {<<PvLine(depth, 1, M_A1B3), PvLine(depth, 2, M_C1B3),
       BestmoveLine(M_A1B3, <<PONDER_WORD, M_A4B2>>)>>,
     <<PvLine(depth - 1, 1, M_C1B3), PvLine(depth, 1, M_A1B3),
       PvLine(depth, 2, M_C1B3), BestmoveLine(M_A1B3, <<>>)>>,
     <<PvLine(depth, 1, M_A1B3), BestmoveLine(M_A1B3, <<>>)>>,
     <<PvLine(depth, 2, M_C1B3), PvLine(depth, 1, M_A1B3),
       BestmoveLine(M_A1B3, <<>>)>>,
     <<PvLine(depth, 2, M_C1B3), PvLine(depth, 1, M_A1B3),
       PvLine(depth, 2, M_C1A2), BestmoveLine(M_A1B3, <<>>)>>,
     <<InfoLine(CP, 20), PvLine(depth, 1, M_C1B3),
       BestmoveLine(M_C1B3, <<>>)>>,
     <<BestmoveLine(NONE_PONDER, <<>>)>>}

\* A client made with the default MultiPV or with param {'MultiPV': 2}.
SearchInit ==
    /\ pc = "idle"
    /\ call = [op |-> "none"]
    /\ stdin = <<>>
    /\ stdout = <<>>
    /\ lastline = <<>>
    /\ last_line = <<>>
    /\ ret = NoResult
    /\ board = StartBoard
    /\ attrs \in {ConstructedAttrs,
                  SetAttr(ConstructedAttrs, N_MULTIPV, PyInt(2))}
    /\ reads = <<>>
    /\ sent = <<>>
    /\ white = "none"
    /\ black = "none"
    /\ moves = <<>>
    /\ winner = "None"
    /\ boards = <<>>
    /\ step = [outcome |-> "none"]
    /\ runpc = "idle"
    /\ runret = "None"
    /\ ended = 0
    /\ phase = "constructed"
    /\ args = NoArgs
    /\ param = base_param
    /\ todo = <<>>
    /\ log = <<>>
    /\ pv_moves = <<>>
    /\ pv_i = 0
    /\ position_sent = NoCommand

\* best_moves(), up to its first readline: go is written, moves is empty
\* and the loop starts at rank 1; with no rank to fill it returns at once.
\* The call remembers whether output of an earlier call was still unread.
best_moves ==
    /\ CanCall
    /\ Len(stdout) <= MaxUnread
    /\ call' = [op |-> "best_moves", n_lines |-> NLines,
                 in_step |-> stdin = <<>> /\ stdout = <<>>]
    /\ Put(<<GoCmd>>)
    /\ pv_moves' = <<>>
    /\ reads' = <<>>
    /\ IF NLines >= 1
       THEN /\ pv_i' = 1
            /\ pc' = "best_moves"
            /\ ret' = NoResult
       ELSE /\ pv_i' = 0
            /\ pc' = "returned"
            /\ ret' = Returned("best_moves", <<>>)
    /\ UNCHANGED <<stdout, lastline, last_line, board, attrs, matchvars,
                   ctorvars, position_sent>>

\* One turn of best_moves' inner loop: a line is read.  A move taken for
\* the last rank ends the outer loop and best_moves returns; a move taken
\* for another rank moves the outer loop on; the bestmove line ends both.
best_moves_read ==
    /\ pc = "best_moves"
    /\ stdout # <<>>
    /\ LET text == Strip(Head(stdout))
           split_text == Split(text)
           o == LineOutcome(split_text, pv_i)
           taken == Append(pv_moves, o.move)
       IN  /\ stdout' = Tail(stdout)
           /\ reads' = Append(reads, Head(stdout))
           /\ CASE o.do = "skip" ->
                     UNCHANGED <<pc, ret, pv_moves, pv_i>>
                [] o.do = "raise" ->
                     /\ pc' = "returned"
                     /\ ret' = Raised("best_moves")
                     /\ UNCHANGED <<pv_moves, pv_i>>
                [] o.do = "bestmove" ->
                     /\ pc' = "returned"
                     /\ ret' = Returned("best_moves", pv_moves)
                     /\ UNCHANGED <<pv_moves, pv_i>>
                [] o.do = "take" ->
                     /\ pv_moves' = taken
                     /\ IF pv_i = call.n_lines
                        THEN /\ pc' = "returned"
                             /\ ret' = Returned("best_moves", taken)
                             /\ UNCHANGED pv_i
                        ELSE /\ pv_i' = pv_i + 1
                             /\ UNCHANGED <<pc, ret>>
    /\ UNCHANGED <<call, stdin, lastline, last_line, board, attrs, sent,
                   matchvars, ctorvars, position_sent>>

\* The engine of a client that searches with several ranks.
engine_pv_answer == EngineAnswers(PvSearchOutputs)

\* The caller has the result of a search; the locals of best_moves are gone
\* with those of the other calls.
search_returns ==
    /\ pc = "returned"
    /\ pc' = "idle"
    /\ call' = [op |-> "none"]
    /\ ret' = NoResult
    /\ lastline' = <<>>
    /\ last_line' = <<>>
    /\ reads' = <<>>
    /\ sent' = <<>>
    /\ pv_moves' = <<>>
    /\ pv_i' = 0
    /\ UNCHANGED <<stdin, stdout, board, attrs, matchvars, ctorvars,
                   position_sent>>

\* best_move(), called by a client that may have lines unread.
search_best_move ==
    /\ Len(stdout) <= MaxUnread
    /\ best_move

\* A client searches, for one move or for the moves of every rank.
SearchNext ==
    \/ search_best_move
    \/ best_moves
    \/ best_move_read
    \/ best_moves_read
    \/ search_returns
    \/ engine_pv_answer
    \/ engine_chatter

SearchSpec == SearchInit /\ [][SearchNext]_vars

(***************************************************************************)
(* Properties of the searching client.                                     *)
(***************************************************************************)
\* A line the engine writes for a search: an info line that reports a
\* depth, or the bestmove line.
IsSearchLine(line) ==
    LET split_text == Split(Strip(line))
    IN  \/ split_text[1] = BESTMOVE
        \/ split_text[1] = INFO /\ FirstIndex(split_text, DEPTH) # 0

\* C16: lock-step of the searches.  When best_move or best_moves returns a
\* result, the last line it read is the bestmove line of the search, no go
\* command is still unanswered and no line of a search is left unread, so
\* a following best_move cannot take the bestmove line of an earlier search.
C16_SearchReturnsAfterBestmove ==
    (pc = "returned" /\ call.op \in {"best_move", "best_moves"}
     /\ ~ret.raised)
    => /\ reads # <<>>
       /\ IsBestmove(Split(Strip(reads[Len(reads)])))
       /\ stdin = <<>>
       /\ \A k \in 1..Len(stdout) : ~IsSearchLine(stdout[k])

\* The engine announces move m for rank k at the configured depth in line.
Announces(line, k) ==
    LET split_text == Split(Strip(line))
        d == IntAfter(split_text, DEPTH)
        n == IntAfter(split_text, MULTIPV)
    IN  /\ split_text[1] = INFO
        /\ d.outcome = "ok" /\ d.value = depth
        /\ n.outcome = "ok" /\ n.value = k
        /\ MoveAfterPv(split_text).outcome = "ok"

\* The first move announced for rank k at the configured depth in lines;
\* the empty text where none is.
FirstAnnounced(lines, k) ==
    LET hits == {j \in 1..Len(lines) : Announces(lines[j], k)}
    IN  IF hits = {} THEN <<>>
        ELSE MoveAfterPv(Split(Strip(
                 lines[CHOOSE j \in hits : \A h \in hits : j <= h]))).move

\* C20: the result of best_moves.  A call made in step with the engine does
\* not raise and returns at most MultiPV moves; its k-th move is the first
\* move the engine announced for rank k at the configured depth, whatever
\* the order of the info lines; it is shorter than MultiPV only when the
\* bestmove line was read.
C20_BestMovesAreFirstAnnounced ==
    (pc = "returned" /\ call.op = "best_moves" /\ call.in_step)
    => /\ ~ret.raised
       /\ Len(ret.value) <= call.n_lines
       /\ \A k \in 1..Len(ret.value) :
              ret.value[k] = FirstAnnounced(reads \o stdout, k)
       /\ Len(ret.value) < call.n_lines
          => /\ reads # <<>>
             /\ IsBestmove(Split(Strip(reads[Len(reads)])))

\* The place in lines of the first line after place from that announces a
\* move for rank k at the configured depth; 0 where none does.
NextAnnounced(lines, from, k) ==
    LET hits == {j \in (from + 1)..Len(lines) : Announces(lines[j], k)}
    IN  IF hits = {} THEN 0
        ELSE CHOOSE j \in hits : \A h \in hits : j <= h

\* The place in lines of the line from which the move of rank k is taken
\* when the ranks are looked for one after the other; 0 where none is.
RECURSIVE TakenAt(_, _)
TakenAt(lines, k) ==
    IF k = 0 THEN 0
    ELSE IF k > 1 /\ TakenAt(lines, k - 1) = 0 THEN 0
    ELSE NextAnnounced(lines, TakenAt(lines, k - 1), k)

\* C20, amended: a call of best_moves made in step with the engine does not
\* raise and returns at most MultiPV moves; its k-th move is the first move
\* announced for rank k at the configured depth after the line from which
\* the move of rank k-1 was taken; it is shorter than MultiPV only when the
\* bestmove line was read.
C20_BestMovesAreFirstAnnouncedInTurn ==
    (pc = "returned" /\ call.op = "best_moves" /\ call.in_step)
    => /\ ~ret.raised
       /\ Len(ret.value) <= call.n_lines
       /\ \A k \in 1..Len(ret.value) :
              /\ TakenAt(reads, k) # 0
              /\ ret.value[k]
                 = MoveAfterPv(Split(Strip(reads[TakenAt(reads, k)]))).move
       /\ Len(ret.value) < call.n_lines
          => /\ reads # <<>>
             /\ IsBestmove(Split(Strip(reads[Len(reads)])))

\* Reached: best_moves has returned two moves after the engine announced a
\* move of rank 2 before the first of rank 1 and another one after it, and
\* on the way it skipped a line that has no depth.
C20_Witness ==
    /\ pc = "returned"
    /\ call.op = "best_moves"
    /\ call.in_step
    /\ Len(ret.value) = 2
    /\ ret.value[2] # FirstAnnounced(reads, 2)
    /\ \E j \in 1..Len(reads) :
           IntAfter(Split(Strip(reads[j])), DEPTH).outcome = "ValueError"

\* The setoption commands written while Engine(...) ran.
SetoptionPuts ==
    LET IsSetoption(e) == e.ev = "put" /\ e.cmd.verb = "setoption"
    IN  SelectSeq(log, IsSetoption)

\* C18: when Engine(...) has returned and after any set_option call since,
\* every option of the recorded mapping self.param was sent with the text
\* of the recorded value and is an option the engine has, and so is every
\* option recorded as an attribute of the client: an option the engine
\* rejected is not recorded.
C18_RecordedOptionsWereAccepted ==
    (phase = "constructed" /\ pc = "idle")
    => /\ \A k \in 1..Len(param) :
              /\ param[k][1] \in EngineOptionNames
              /\ \E j \in 1..Len(SetoptionPuts) :
                     /\ SetoptionPuts[j].cmd.name = param[k][1]
                     /\ SetoptionPuts[j].cmd.value = PyStr(param[k][2])
       /\ \A n \in DOMAIN attrs : n \in EngineOptionNames

\* C19: randomized contempt.  When Engine(..., rand=True) has returned, for
\* each of Contempt and Contempt Factor that the caller's param does not
\* give, the value recorded is one integer v with rand_min <= v <= rand_max
\* and the value sent to the engine is the text of that integer.
C19_RandomizedContemptIsInteger ==
    (phase = "constructed" /\ args.rand)
    => \A n \in RandomizedNames \ KeysOf(args.param) :
           \E v \in args.rand_min..args.rand_max :
               /\ Lookup(param, n) = PyInt(v)
               /\ \E j \in 1..Len(SetoptionPuts) :
                      /\ SetoptionPuts[j].cmd.name = n
                      /\ SetoptionPuts[j].cmd.value = IntStr(v)

=============================================================================
